---- MODULE Spec2Model ----
(***************************************************************************)
(* Upload handlers of the video-hosting backend: handlerUploadThumbnail    *)
(* (two variants), handlerUploadVideo (with and without aspect probing),   *)
(* uploadToS3 and getVideoAspectRatio.  Every request runs in its own      *)
(* goroutine; the record store, the assets directory, the temp directory   *)
(* and the bucket are shared.  One action is one statement block of a      *)
(* handler, so that requests interleave between any two of them.           *)
(***************************************************************************)
EXTENDS Integers, Sequences, FiniteSets, TLC

VARIABLES thumbVariant, videoVariant, db, assets, tmpfs, s3, loc, started,
          dims, label, prefix

vars == <<thumbVariant, videoVariant, db, assets, tmpfs, s3, loc, started,
          dims, label, prefix>>

handlerVars == <<thumbVariant, videoVariant, db, assets, tmpfs, s3, loc, started>>
aspectVars == <<dims, label, prefix>>

(* ------------------------------ bounds -------------------------------- *)
\* total number of requests the server accepts in one behaviour
MaxRequests == 2
\* widths and heights 0..MaxDim are classified exhaustively
MaxDim == 12

\* request slots (goroutines that can be in flight at the same time)
Reqs == {"r1", "r2"}
Users == {"u1", "u2"}
Videos == {"v1", "v2"}
Bytes == {"b1", "b2"}
\* outcomes of a successful rand.Read of 32 bytes
RandNames == {"n1", "n2"}
\* make([]byte, 32): all zero
ZeroName == "n0"
\* random suffixes os.CreateTemp can append
TmpSuffixes == {"1", "2"}
\* Content-Type headers a multipart part can carry
CTypeHeaders == {"image/jpeg", "image/png", "image/png; q=1", "video/mp4", ""}

(* --------------------------- configuration ---------------------------- *)
\* The repository holds two alternative thumbnail handlers (A: random file
\* name, allow-list, absolute URL; B: name from the video ID, no allow-list,
\* relative URL) and two alternative video handlers (with and without aspect
\* probing).  A server is built from one of each.
Builds == {<<"A", "aspect">>, <<"B", "plain">>}

port == "8091"
assetsRoot == "./assets"
s3Bucket == "tubely"
s3Region == "us-east-2"
TempDir == "/tmp"
Cwd == "."

maxMemory == 2 ^ 30
\* a body that fills the cap exactly, and one a byte longer
BodySizes == {maxMemory, maxMemory + 1}

StatusOK == 200
StatusAccepted == 202
StatusBadRequest == 400
StatusUnauthorized == 401
StatusInternalServerError == 500

(* ------------------------------ values -------------------------------- *)
None == "none"
NoURL == <<>>
Absent == "absent"
Empty == "empty"
\* a temp file that exists; what it holds is the handler's local data, for
\* no other request opens it
File == "file"
Partial == "partial"

Exts == {".jpg", ".png", ""}
AssetNames == {s \o e : s \in RandNames \cup Videos \cup {ZeroName}, e \in Exts}

TmpPattern == "tubely-upload.mp4"
TmpPaths == {<<TempDir, TmpPattern \o s>> : s \in TmpSuffixes}
RemovePath == <<Cwd, TmpPattern>>

Prefixes == {"landscape", "portrait", "other"}
S3Keys == {p \o "/" \o n \o ".mp4" : p \in Prefixes, n \in RandNames}
            \cup {n \o ".mp4" : n \in RandNames}

\* mime.ParseMediaType: lower-cases the type, drops the parameters, fails on
\* an empty header
ParseMediaType(h) ==
    CASE h = "" -> [err |-> TRUE, mediatype |-> ""]
      [] h = "image/png; q=1" -> [err |-> FALSE, mediatype |-> "image/png"]
      [] OTHER -> [err |-> FALSE, mediatype |-> h]

\* the record a request keeps: its handler's local variables, its position,
\* and what it has done so far (hdr, the part's raw Content-Type header, is
\* read once, by the step that sets contentType)
NewLocals(k) ==
    [pc |-> "parseID", kind |-> k, videoID |-> None, userID |-> None,
     hdr |-> None, contentType |-> None, data |-> None, size |-> 0,
     video |-> None, filename |-> None, fileExtension |-> None,
     tempFile |-> None, tempOpen |-> FALSE, aspectRatio |-> None,
     nResp |-> 0, status |-> 0, bodyRead |-> FALSE, gate |-> FALSE,
     wrote |-> {}, lateWrite |-> FALSE, lookupFailed |-> FALSE,
     probeFailed |-> FALSE, randFailed |-> FALSE, disturbed |-> FALSE,
     clash |-> FALSE, superseded |-> FALSE]

IdleLocals == [NewLocals(None) EXCEPT !.pc = "idle"]

\* respondWithError / respondWithJSON / w.WriteHeader: the first status written
\* is the one the client receives
Respond(l, code) ==
    [l EXCEPT !.nResp = @ + 1, !.status = IF @ = 0 THEN code ELSE @]

\* a write (file, object or record) made by the handler
Wrote(l, what) ==
    [l EXCEPT !.wrote = @ \cup {what}, !.lateWrite = @ \/ l.nResp > 0]

\* the deferred calls of handlerUploadVideo, in reverse order of registration:
\* tempFile.Close(), os.Remove("tubely-upload.mp4"), file.Close(); the
\* handler's working values go out of scope (the record it wrote is kept)
Deferred(l) ==
    [l EXCEPT !.tempOpen = FALSE, !.contentType = None, !.data = None,
              !.filename = None, !.aspectRatio = None,
              !.video = IF "db" \in l.wrote THEN @ ELSE None]
DeferredRemove(fs) == [fs EXCEPT ![RemovePath] = Absent]

\* return from the handler
Return(l) == [l EXCEPT !.pc = "done"]

Fail(l, code) == Return(Respond(l, code))

AssetPath(l) == l.filename \o l.fileExtension

\* What a write of request r means to the other requests: an upload to the
\* same record (disturbed), a write to the same asset file (clash), a record
\* update after their own (superseded).  path is the asset file written, or
\* None when the write is a record update.
Interfere(L, r, path) ==
    [q \in Reqs |->
        IF q = r \/ L[q].pc = "idle" THEN L[q]
        ELSE [L[q] EXCEPT
                !.disturbed = @ \/ L[q].videoID = L[r].videoID,
                !.clash = @ \/ (path # None /\ L[q].filename # None
                                 /\ L[q].kind = "thumbnail"
                                 /\ AssetPath(L[q]) = path),
                !.superseded = @ \/ (path = None /\ "db" \in L[q].wrote
                                      /\ L[q].videoID = L[r].videoID)]]

Init ==
    /\ \E b \in Builds : thumbVariant = b[1] /\ videoVariant = b[2]
    /\ db = [v \in Videos |->
               [ID |-> v, UserID |-> IF v = "v1" THEN "u1" ELSE "u2",
                ThumbnailURL |-> NoURL, VideoURL |-> NoURL]]
    /\ assets = [p \in AssetNames |-> Absent]
    /\ tmpfs = [p \in TmpPaths \cup {RemovePath} |-> Absent]
    /\ s3 = [k \in S3Keys |-> Absent]
    /\ loc = [r \in Reqs |-> IdleLocals]
    /\ started = 0
    /\ dims = <<0, 0>> /\ label = None /\ prefix = None

(* ----------------------------- the server ----------------------------- *)
\* the router hands a new request to one of the two handlers
Start(r) ==
    /\ loc[r].pc \in {"idle", "done"}
    /\ started < MaxRequests
    /\ \E k \in {"thumbnail", "video"} : loc' = [loc EXCEPT ![r] = NewLocals(k)]
    /\ started' = started + 1
    /\ UNCHANGED <<thumbVariant, videoVariant, db, assets, tmpfs, s3, aspectVars>>

(* ------------------- steps common to all handlers --------------------- *)
\* uuid.Parse(r.PathValue("videoID"))
ParseID(r, next) ==
    /\ loc[r].pc = "parseID"
    /\ \/ loc' = [loc EXCEPT ![r] = Fail(@, StatusBadRequest)]
       \/ \E v \in Videos :
            loc' = [loc EXCEPT ![r] = [@ EXCEPT !.videoID = v, !.pc = next]]
    /\ UNCHANGED <<thumbVariant, videoVariant, db, assets, tmpfs, s3, started, aspectVars>>

\* auth.GetBearerToken(r.Header)
GetBearerToken(r, next) ==
    /\ loc[r].pc = "token"
    /\ \/ loc' = [loc EXCEPT ![r] = Fail(@, StatusUnauthorized)]
       \/ loc' = [loc EXCEPT ![r] = [@ EXCEPT !.pc = next]]
    /\ UNCHANGED <<thumbVariant, videoVariant, db, assets, tmpfs, s3, started, aspectVars>>

\* auth.ValidateJWT(token, cfg.jwtSecret)
ValidateJWT(r, next) ==
    /\ loc[r].pc = "jwt"
    /\ \/ loc' = [loc EXCEPT ![r] = Fail(@, StatusUnauthorized)]
       \/ \E u \in Users :
            loc' = [loc EXCEPT ![r] = [@ EXCEPT !.userID = u, !.pc = next]]
    /\ UNCHANGED <<thumbVariant, videoVariant, db, assets, tmpfs, s3, started, aspectVars>>

\* cfg.db.GetVideo(videoID): the whole record, or an error
GetVideo(r, next) ==
    /\ loc[r].pc = "getVideo"
    /\ \/ loc' = [loc EXCEPT ![r] =
                    Fail([@ EXCEPT !.lookupFailed = TRUE], StatusInternalServerError)]
       \/ loc' = [loc EXCEPT ![r] =
                    [@ EXCEPT !.video = db[loc[r].videoID], !.pc = next]]
    /\ UNCHANGED <<thumbVariant, videoVariant, db, assets, tmpfs, s3, started, aspectVars>>

\* if video.UserID != userID { 401 }
CheckOwner(r, next) ==
    /\ loc[r].pc = "owner"
    /\ IF loc[r].video.UserID # loc[r].userID
         THEN loc' = [loc EXCEPT ![r] = Fail(@, StatusUnauthorized)]
         ELSE loc' = [loc EXCEPT ![r] = [@ EXCEPT !.gate = TRUE, !.pc = next]]
    /\ UNCHANGED <<thumbVariant, videoVariant, db, assets, tmpfs, s3, started, aspectVars>>

(* ----------------- handlerUploadThumbnail (both variants) -------------- *)
ThumbParseID(r) == loc[r].kind = "thumbnail" /\ ParseID(r, "token")
ThumbGetBearerToken(r) == loc[r].kind = "thumbnail" /\ GetBearerToken(r, "jwt")
ThumbValidateJWT(r) == loc[r].kind = "thumbnail" /\ ValidateJWT(r, "form")

\* r.ParseMultipartForm(maxMemory) with its error dropped, then
\* r.FormFile("thumbnail"): the request body is read here
ThumbFormFile(r) ==
    /\ loc[r].kind = "thumbnail" /\ loc[r].pc = "form"
    /\ \/ loc' = [loc EXCEPT ![r] = Fail([@ EXCEPT !.bodyRead = TRUE], StatusBadRequest)]
       \/ \E h \in CTypeHeaders :
            loc' = [loc EXCEPT ![r] =
                      [@ EXCEPT !.bodyRead = TRUE, !.hdr = h, !.pc = "contentType"]]
    /\ UNCHANGED <<thumbVariant, videoVariant, db, assets, tmpfs, s3, started, aspectVars>>

\* ThumbContentTypeA without the allow-list test
ThumbContentTypeA_NoAllowList(r) ==
    /\ loc[r].kind = "thumbnail" /\ loc[r].pc = "contentType" /\ thumbVariant = "A"
    /\ LET m == ParseMediaType(loc[r].hdr) IN
         IF m.err
           THEN loc' = [loc EXCEPT ![r] =
                          Fail([@ EXCEPT !.contentType = m.mediatype, !.hdr = None],
                               StatusBadRequest)]
           ELSE loc' = [loc EXCEPT ![r] =
                          [@ EXCEPT !.contentType = m.mediatype, !.hdr = None,
                                    !.pc = "getVideo"]]
    /\ UNCHANGED <<thumbVariant, videoVariant, db, assets, tmpfs, s3, started, aspectVars>>

\* variant A: mime.ParseMediaType and the allow-list
ThumbContentTypeA(r) ==
    /\ loc[r].kind = "thumbnail" /\ loc[r].pc = "contentType" /\ thumbVariant = "A"
    /\ LET m == ParseMediaType(loc[r].hdr) IN
         IF m.err
           THEN loc' = [loc EXCEPT ![r] =
                          Fail([@ EXCEPT !.contentType = m.mediatype, !.hdr = None],
                               StatusBadRequest)]
           ELSE IF m.mediatype # "image/jpeg" /\ m.mediatype # "image/png"
             THEN loc' = [loc EXCEPT ![r] =
                            Fail([@ EXCEPT !.contentType = m.mediatype, !.hdr = None],
                                 StatusBadRequest)]
             ELSE loc' = [loc EXCEPT ![r] =
                            [@ EXCEPT !.contentType = m.mediatype, !.hdr = None,
                                      !.pc = "getVideo"]]
    /\ UNCHANGED <<thumbVariant, videoVariant, db, assets, tmpfs, s3, started, aspectVars>>

\* variant B: contentType := header.Header.Get("Content-Type")
ThumbContentTypeB(r) ==
    /\ loc[r].kind = "thumbnail" /\ loc[r].pc = "contentType" /\ thumbVariant = "B"
    /\ loc' = [loc EXCEPT ![r] =
                 [@ EXCEPT !.contentType = loc[r].hdr, !.hdr = None, !.pc = "getVideo"]]
    /\ UNCHANGED <<thumbVariant, videoVariant, db, assets, tmpfs, s3, started, aspectVars>>

ThumbGetVideo(r) == loc[r].kind = "thumbnail" /\ GetVideo(r, "owner")
ThumbCheckOwner(r) == loc[r].kind = "thumbnail" /\ CheckOwner(r, "ext")

\* switch contentType { case "image/jpeg": ".jpg"; case "image/png": ".png" }
\* a string variable not assigned by the switch keeps "" (variant A has no
\* default case, variant B assigns "" in it)
FileExtension(contentType) ==
    CASE contentType = "image/jpeg" -> ".jpg"
      [] contentType = "image/png" -> ".png"
      [] OTHER -> ""

\* variant A: the extension, then rand.Read into a zeroed slice; on failure
\* the handler responds and goes on (no return) with the slice as it is
ThumbNameA(r) ==
    /\ loc[r].kind = "thumbnail" /\ loc[r].pc = "ext" /\ thumbVariant = "A"
    /\ LET e == FileExtension(loc[r].contentType) IN
        \/ \E n \in {ZeroName} :
             loc' = [loc EXCEPT ![r] =
                       [Respond([@ EXCEPT !.randFailed = TRUE], StatusInternalServerError)
                          EXCEPT !.fileExtension = e, !.filename = n, !.pc = "create"]]
        \/ \E n \in RandNames :
             loc' = [loc EXCEPT ![r] =
                       [@ EXCEPT !.fileExtension = e, !.filename = n, !.pc = "create"]]
    /\ UNCHANGED <<thumbVariant, videoVariant, db, assets, tmpfs, s3, started, aspectVars>>

\* variant B: the extension, and videoID.String() as the file name
ThumbNameB(r) ==
    /\ loc[r].kind = "thumbnail" /\ loc[r].pc = "ext" /\ thumbVariant = "B"
    /\ loc' = [loc EXCEPT ![r] =
                 [@ EXCEPT !.fileExtension = FileExtension(loc[r].contentType),
                           !.filename = loc[r].videoID, !.pc = "create"]]
    /\ UNCHANGED <<thumbVariant, videoVariant, db, assets, tmpfs, s3, started, aspectVars>>

\* os.Create(filepath.Join(cfg.assetsRoot, name+ext)): creates or truncates
ThumbCreate(r) ==
    /\ loc[r].kind = "thumbnail" /\ loc[r].pc = "create"
    /\ \/ /\ loc' = [loc EXCEPT ![r] = Fail(@, StatusInternalServerError)]
          /\ UNCHANGED assets
       \/ /\ assets' = [assets EXCEPT ![AssetPath(loc[r])] = Empty]
          /\ loc' = Interfere([loc EXCEPT ![r] = [Wrote(@, "asset") EXCEPT !.pc = "copy"]],
                              r, AssetPath(loc[r]))
    /\ UNCHANGED <<thumbVariant, videoVariant, db, tmpfs, s3, started, aspectVars>>

\* what a file holds after io.Copy wrote d from offset 0: d, unless another
\* writer's bytes were already there and may reach past the end of d
Overwrite(old, d) == IF old \in {Empty, Absent, d} THEN {d} ELSE {d, Partial}

\* file.Seek(0, 0), then io.Copy(newFile, file); the bytes of the uploaded
\* part, d, are first looked at here
ThumbCopy(r) ==
    /\ loc[r].kind = "thumbnail" /\ loc[r].pc = "copy"
    /\ LET p == AssetPath(loc[r]) IN
        \/ /\ loc' = [loc EXCEPT ![r] = Fail(@, StatusInternalServerError)]
           /\ UNCHANGED assets
        \/ /\ assets' = [assets EXCEPT ![p] = Partial]
           /\ loc' = Interfere([loc EXCEPT ![r] =
                                  Fail(Wrote(@, "asset"), StatusInternalServerError)], r, p)
        \/ \E d \in Bytes : \E c \in Overwrite(assets[p], d) :
             /\ assets' = [assets EXCEPT ![p] = c]
             /\ loc' = Interfere([loc EXCEPT ![r] =
                                    [Wrote(@, "asset") EXCEPT !.data = d, !.pc = "update"]],
                                 r, p)
    /\ UNCHANGED <<thumbVariant, videoVariant, db, tmpfs, s3, started, aspectVars>>

\* ThumbnailURL with the extension left out of the URL
ThumbnailURL_NoExt(l) ==
    IF thumbVariant = "A"
      THEN <<"http://localhost:" \o port, "assets", l.filename>>
      ELSE <<"", "assets", l.videoID>>

\* fmt.Sprintf("http://localhost:%s/assets/%s%s", cfg.port, filename, ext) in
\* variant A, fmt.Sprintf("/assets/%s%s", videoID.String(), ext) in variant B
ThumbnailURL(l) ==
    IF thumbVariant = "A"
      THEN <<"http://localhost:" \o port, "assets", l.filename \o l.fileExtension>>
      ELSE <<"", "assets", l.videoID \o l.fileExtension>>

\* cfg.db.UpdateVideo(video): the whole record replaces the stored one
UpdateVideo(d, video) == [d EXCEPT ![video.ID] = video]

\* video.ThumbnailURL = &thumbnailURL; cfg.db.UpdateVideo(video);
\* respondWithJSON(w, http.StatusOK, video)
ThumbUpdate(r) ==
    /\ loc[r].kind = "thumbnail" /\ loc[r].pc = "update"
    /\ LET video == [loc[r].video EXCEPT !.ThumbnailURL = ThumbnailURL(loc[r])] IN
        \/ /\ loc' = [loc EXCEPT ![r] = Fail([@ EXCEPT !.video = video], StatusInternalServerError)]
           /\ UNCHANGED db
        \/ /\ db' = UpdateVideo(db, video)
           /\ loc' = Interfere([loc EXCEPT ![r] =
                                  Fail(Wrote([@ EXCEPT !.video = video], "db"), StatusOK)],
                               r, None)
    /\ UNCHANGED <<thumbVariant, videoVariant, assets, tmpfs, s3, started, aspectVars>>

(* ------------------- float64 arithmetic (IEEE 754) -------------------- *)
\* Naturals too wide for 32-bit integers: little-endian sequences of
\* limbs in base 2^15, without leading zero limbs.
Base == 2 ^ 15

RECURSIVE Trim(_)
Trim(n) == IF n # <<>> /\ n[Len(n)] = 0 THEN Trim(SubSeq(n, 1, Len(n) - 1)) ELSE n

Big(i) == IF i = 0 THEN <<>> ELSE Trim(<<i % Base, i \div Base>>)

RECURSIVE MulSmallC(_, _, _)
MulSmallC(n, a, carry) ==
    IF n = <<>> THEN Big(carry)
    ELSE LET t == Head(n) * a + carry
         IN <<t % Base>> \o MulSmallC(Tail(n), a, t \div Base)

MulSmall(n, a) == Trim(MulSmallC(n, a, 0))

RECURSIVE DivSmallR(_, _)
DivSmallR(n, d) ==
    IF n = <<>> THEN [q |-> <<>>, r |-> 0]
    ELSE LET hi == DivSmallR(Tail(n), d)
             cur == hi.r * Base + Head(n)
         IN [q |-> <<cur \div d>> \o hi.q, r |-> cur % d]

DivSmall(n, d) == LET x == DivSmallR(n, d) IN [q |-> Trim(x.q), r |-> x.r]

RECURSIVE ShiftLeft(_, _)
ShiftLeft(n, k) ==
    IF k = 0 THEN n
    ELSE IF k > 12 THEN ShiftLeft(MulSmall(n, 4096), k - 12)
    ELSE MulSmall(n, 2 ^ k)

RECURSIVE CmpFrom(_, _, _)
CmpFrom(a, b, i) ==
    IF i = 0 THEN 0
    ELSE IF a[i] < b[i] THEN -1
    ELSE IF a[i] > b[i] THEN 1
    ELSE CmpFrom(a, b, i - 1)

\* -1, 0 or 1 as a < b, a = b, a > b
Cmp(a, b) ==
    IF Len(a) < Len(b) THEN -1
    ELSE IF Len(a) > Len(b) THEN 1
    ELSE CmpFrom(a, b, Len(a))

RECURSIVE SubB(_, _, _)
SubB(a, b, borrow) ==
    IF a = <<>> THEN <<>>
    ELSE LET y == (IF b = <<>> THEN 0 ELSE Head(b)) + borrow
             rest == IF b = <<>> THEN <<>> ELSE Tail(b)
         IN IF Head(a) >= y
              THEN <<Head(a) - y>> \o SubB(Tail(a), rest, 0)
              ELSE <<Head(a) + Base - y>> \o SubB(Tail(a), rest, 1)

\* a - b for a >= b
Sub(a, b) == Trim(SubB(a, b, 0))

RECURSIVE Inc(_)
Inc(n) ==
    IF n = <<>> THEN <<1>>
    ELSE IF Head(n) + 1 < Base THEN <<Head(n) + 1>> \o Tail(n)
    ELSE <<0>> \o Inc(Tail(n))

IsOdd(n) == n # <<>> /\ Head(n) % 2 = 1

Two53 == ShiftLeft(<<1>>, 53)

\* a float64 is NaN, +Inf, or the finite value m * 2^e with m < 2^53 + 1
FNaN == [k |-> "nan", m |-> <<>>, e |-> 0]
FInf == [k |-> "inf", m |-> <<>>, e |-> 0]
Fin(m, e) == [k |-> "fin", m |-> m, e |-> e]

\* round to nearest, ties to even: q with remainder r out of d
RoundEven(q, r, d) ==
    IF 2 * r > d \/ (2 * r = d /\ IsOdd(q)) THEN Inc(q) ELSE q

\* the t with 1 <= a * 2^t / b < 2
RECURSIVE Log2Ratio(_, _)
Log2Ratio(a, b) ==
    IF a >= 2 * b THEN Log2Ratio(a, 2 * b) - 1
    ELSE IF a < b THEN Log2Ratio(2 * a, b) + 1
    ELSE 0

\* float64(a) / float64(b) for integers 0 <= a, b < 4096, correctly rounded
FDiv(a, b) ==
    IF b = 0 THEN (IF a = 0 THEN FNaN ELSE FInf)
    ELSE IF a = 0 THEN Fin(<<>>, 0)
    ELSE LET t == Log2Ratio(a, b)
             s == 52 + t
             \* a * 2^s / b = (a * 2^t / b) * 2^52 lies in [2^52, 2^53)
             up == IF t > 0 THEN 2 ^ t ELSE 1
             down == IF t < 0 THEN 2 ^ (0 - t) ELSE 1
             x == DivSmall(ShiftLeft(Big(a * up), 52), b * down)
         IN Fin(RoundEven(x.q, x.r, b * down), 0 - s)

\* the number of bits by which n exceeds 53 bits
RECURSIVE ExcessBits(_, _)
ExcessBits(n, k) ==
    IF Cmp(n, ShiftLeft(Two53, k)) < 0 THEN k ELSE ExcessBits(n, k + 1)

\* |x - y| rounded to float64
FAbsSub(x, y) ==
    IF x.k = "nan" \/ y.k = "nan" THEN FNaN
    ELSE IF x.k = "inf" THEN (IF y.k = "inf" THEN FNaN ELSE FInf)
    ELSE IF y.k = "inf" THEN FInf
    ELSE LET e0 == IF x.e < y.e THEN x.e ELSE y.e
             X == ShiftLeft(x.m, x.e - e0)
             Y == ShiftLeft(y.m, y.e - e0)
             D == IF Cmp(X, Y) >= 0 THEN Sub(X, Y) ELSE Sub(Y, X)
             k == ExcessBits(D, 0)
         IN IF k = 0 THEN Fin(D, e0)
            ELSE LET c == DivSmall(D, 2 ^ k)
                 IN Fin(RoundEven(c.q, c.r, 2 ^ k), e0 + k)

\* x < y on float64: false when either side is NaN
FLess(x, y) ==
    IF x.k = "nan" \/ y.k = "nan" THEN FALSE
    ELSE IF x.k = "inf" THEN FALSE
    ELSE IF y.k = "inf" THEN TRUE
    ELSE LET e0 == IF x.e < y.e THEN x.e ELSE y.e
         IN Cmp(ShiftLeft(x.m, x.e - e0), ShiftLeft(y.m, y.e - e0)) < 0

(* ------------------------ getVideoAspectRatio ------------------------- *)
\* the constants 16.0/9.0, 9.0/16.0 and 0.1 as float64
Ratio16x9 == FDiv(16, 9)
Ratio9x16 == FDiv(9, 16)
Tolerance == FDiv(1, 10)

\* AspectOf with the division done on the integers: float64(width / height)
AspectOf_IntDiv(width, height) ==
    LET ratio == IF height = 0 THEN FDiv(width, 0) ELSE FDiv(width \div height, 1) IN
      IF FLess(FAbsSub(ratio, Ratio16x9), Tolerance) THEN "16:9"
      ELSE IF FLess(FAbsSub(ratio, Ratio9x16), Tolerance) THEN "9:16"
      ELSE "other"

\* ratio := float64(width) / float64(height) and the two comparisons
AspectOf(width, height) ==
    LET ratio == FDiv(width, height) IN
      IF FLess(FAbsSub(ratio, Ratio16x9), Tolerance) THEN "16:9"
      ELSE IF FLess(FAbsSub(ratio, Ratio9x16), Tolerance) THEN "9:16"
      ELSE "other"

\* What running ffprobe gives: its exit status, whether its output is JSON,
\* and the streams the JSON lists with their width and height.
Stream(w, h) == [Width |-> w, Height |-> h]
Probe(exit, json, streams) == [exit |-> exit, json |-> json, streams |-> streams]

getVideoAspectRatio(out) ==
    IF out.exit # 0 THEN [err |-> TRUE, ratio |-> ""]
    ELSE IF ~out.json THEN [err |-> TRUE, ratio |-> ""]
    ELSE IF Len(out.streams) = 0 THEN [err |-> TRUE, ratio |-> ""]
    ELSE [err |-> FALSE,
          ratio |-> AspectOf(out.streams[1].Width, out.streams[1].Height)]

\* switch aspectRatio { case "16:9": landscape; case "9:16": portrait;
\* default: other }
PrefixOf(aspectRatio) ==
    CASE aspectRatio = "16:9" -> "landscape"
      [] aspectRatio = "9:16" -> "portrait"
      [] OTHER -> "other"

\* what ffprobe can print for an uploaded file
ProbeOutputs ==
    {Probe(1, FALSE, <<>>), Probe(0, FALSE, <<>>), Probe(0, TRUE, <<>>),
     Probe(0, TRUE, <<Stream(1920, 1080)>>), Probe(0, TRUE, <<Stream(1080, 1920)>>),
     Probe(0, TRUE, <<Stream(1000, 1000), Stream(1920, 1080)>>)}

(* ------------------ handlerUploadVideo (both builds) ------------------ *)
\* a return after os.CreateTemp succeeded runs the deferred calls
VFail(l, code) == Deferred(Fail(l, code))

VideoParseID(r) == loc[r].kind = "video" /\ ParseID(r, "token")
VideoGetBearerToken(r) == loc[r].kind = "video" /\ GetBearerToken(r, "jwt")
VideoValidateJWT(r) == loc[r].kind = "video" /\ ValidateJWT(r, "getVideo")
VideoGetVideo(r) == loc[r].kind = "video" /\ GetVideo(r, "owner")
VideoCheckOwner(r) == loc[r].kind = "video" /\ CheckOwner(r, "form")

\* VideoFormFile without the http.MaxBytesReader wrapper
VideoFormFile_NoCap(r) ==
    /\ loc[r].kind = "video" /\ loc[r].pc = "form"
    /\ \E n \in BodySizes :
         \/ loc' = [loc EXCEPT ![r] =
                      Fail([@ EXCEPT !.bodyRead = TRUE, !.size = n], StatusBadRequest)]
         \/ \E h \in CTypeHeaders :
              loc' = [loc EXCEPT ![r] =
                        [@ EXCEPT !.bodyRead = TRUE, !.size = n, !.hdr = h,
                                  !.pc = "contentType"]]
    /\ UNCHANGED <<thumbVariant, videoVariant, db, assets, tmpfs, s3, started, aspectVars>>

\* r.FormFile("video") on the body wrapped by http.MaxBytesReader(w, r.Body,
\* maxMemory): reading past the cap is an error
VideoFormFile(r) ==
    /\ loc[r].kind = "video" /\ loc[r].pc = "form"
    /\ \E n \in BodySizes :
         IF n > maxMemory
           THEN loc' = [loc EXCEPT ![r] =
                          Fail([@ EXCEPT !.bodyRead = TRUE, !.size = n], StatusBadRequest)]
           ELSE \/ loc' = [loc EXCEPT ![r] =
                             Fail([@ EXCEPT !.bodyRead = TRUE, !.size = n], StatusBadRequest)]
                \/ \E h \in CTypeHeaders :
                     loc' = [loc EXCEPT ![r] =
                               [@ EXCEPT !.bodyRead = TRUE, !.size = n, !.hdr = h,
                                         !.pc = "contentType"]]
    /\ UNCHANGED <<thumbVariant, videoVariant, db, assets, tmpfs, s3, started, aspectVars>>

\* mime.ParseMediaType and the "video/mp4" test
VideoContentType(r) ==
    /\ loc[r].kind = "video" /\ loc[r].pc = "contentType"
    /\ LET m == ParseMediaType(loc[r].hdr) IN
         IF m.err
           THEN loc' = [loc EXCEPT ![r] =
                          Fail([@ EXCEPT !.contentType = m.mediatype, !.hdr = None],
                               StatusBadRequest)]
           ELSE IF m.mediatype # "video/mp4"
             THEN loc' = [loc EXCEPT ![r] =
                            Fail([@ EXCEPT !.contentType = m.mediatype, !.hdr = None],
                                 StatusBadRequest)]
             ELSE loc' = [loc EXCEPT ![r] =
                            [@ EXCEPT !.contentType = m.mediatype, !.hdr = None,
                                      !.pc = "createTemp"]]
    /\ UNCHANGED <<thumbVariant, videoVariant, db, assets, tmpfs, s3, started, aspectVars>>

\* os.CreateTemp("", "tubely-upload.mp4"): a new file in the temp directory
\* named by the pattern followed by a random string, never an existing one;
\* then defer os.Remove("tubely-upload.mp4") and defer tempFile.Close()
VideoCreateTemp(r) ==
    /\ loc[r].kind = "video" /\ loc[r].pc = "createTemp"
    /\ \/ /\ loc' = [loc EXCEPT ![r] = Fail(@, StatusInternalServerError)]
          /\ UNCHANGED tmpfs
       \/ \E p \in TmpPaths :
            /\ tmpfs[p] = Absent
            /\ tmpfs' = [tmpfs EXCEPT ![p] = File]
            /\ loc' = [loc EXCEPT ![r] =
                         [Wrote(@, "temp") EXCEPT !.tempFile = p, !.tempOpen = TRUE,
                                                  !.pc = "copy"]]
    /\ UNCHANGED <<thumbVariant, videoVariant, db, assets, s3, started, aspectVars>>

\* io.Copy(tempFile, file), then tempFile.Seek(0, io.SeekStart); the bytes
\* of the uploaded part, d, are first looked at here
VideoCopy(r) ==
    /\ loc[r].kind = "video" /\ loc[r].pc = "copy"
    /\ \/ /\ tmpfs' = DeferredRemove(tmpfs)
          /\ loc' = [loc EXCEPT ![r] = VFail(@, StatusInternalServerError)]
       \/ \E d \in Bytes :
            /\ UNCHANGED tmpfs
            /\ loc' = [loc EXCEPT ![r] =
                         [@ EXCEPT !.data = d,
                                   !.pc = IF videoVariant = "aspect" THEN "probe"
                                          ELSE "rand"]]
    /\ UNCHANGED <<thumbVariant, videoVariant, db, assets, s3, started, aspectVars>>

\* VideoProbe with the return after the error response left out
VideoProbe_NoReturn(r) ==
    /\ loc[r].kind = "video" /\ loc[r].pc = "probe" /\ videoVariant = "aspect"
    /\ \E out \in ProbeOutputs :
         LET res == getVideoAspectRatio(out) IN
           IF res.err
             THEN loc' = [loc EXCEPT ![r] =
                            [Respond([@ EXCEPT !.probeFailed = TRUE],
                                     StatusInternalServerError)
                               EXCEPT !.aspectRatio = res.ratio, !.pc = "rand"]]
             ELSE loc' = [loc EXCEPT ![r] =
                            [@ EXCEPT !.aspectRatio = res.ratio, !.pc = "rand"]]
    /\ UNCHANGED <<thumbVariant, videoVariant, db, assets, tmpfs, s3, started, aspectVars>>

\* getVideoAspectRatio(tempFile.Name()): ffprobe fails, prints no JSON or no
\* stream, or the first stream's width and height are classified
VideoProbe(r) ==
    /\ loc[r].kind = "video" /\ loc[r].pc = "probe" /\ videoVariant = "aspect"
    /\ \E out \in ProbeOutputs :
         LET res == getVideoAspectRatio(out) IN
           IF res.err
             THEN /\ loc' = [loc EXCEPT ![r] =
                               VFail([@ EXCEPT !.probeFailed = TRUE],
                                     StatusInternalServerError)]
                  /\ tmpfs' = DeferredRemove(tmpfs)
             ELSE /\ loc' = [loc EXCEPT ![r] =
                               [@ EXCEPT !.aspectRatio = res.ratio, !.pc = "rand"]]
                  /\ UNCHANGED tmpfs
    /\ UNCHANGED <<thumbVariant, videoVariant, db, assets, s3, started, aspectVars>>

\* rand.Read(randSlice): on failure the handler responds and returns
VideoRand(r) ==
    /\ loc[r].kind = "video" /\ loc[r].pc = "rand"
    /\ \/ /\ loc' = [loc EXCEPT ![r] =
                       VFail([@ EXCEPT !.randFailed = TRUE], StatusInternalServerError)]
          /\ tmpfs' = DeferredRemove(tmpfs)
       \/ \E n \in RandNames :
            /\ loc' = [loc EXCEPT ![r] = [@ EXCEPT !.filename = n, !.pc = "upload"]]
            /\ UNCHANGED tmpfs
    /\ UNCHANGED <<thumbVariant, videoVariant, db, assets, s3, started, aspectVars>>

\* fmt.Sprintf("%s/%s.mp4", prefix, name) with aspect probing,
\* fmt.Sprintf("%s.mp4", name) without
FileKey(l) ==
    IF videoVariant = "aspect"
      THEN PrefixOf(l.aspectRatio) \o "/" \o l.filename \o ".mp4"
      ELSE l.filename \o ".mp4"

\* fmt.Sprintf("https://%s.s3.%s.amazonaws.com/%s", bucket, region, key)
S3URL(key) == <<"https://" \o s3Bucket \o ".s3." \o s3Region \o ".amazonaws.com", key>>

\* cfg.uploadToS3(tempFile, fileKey, contentType): PutObject stores what the
\* temp file holds under the key
VideoUpload(r) ==
    /\ loc[r].kind = "video" /\ loc[r].pc = "upload"
    /\ \/ /\ loc' = [loc EXCEPT ![r] = VFail(@, StatusInternalServerError)]
          /\ tmpfs' = DeferredRemove(tmpfs)
          /\ UNCHANGED s3
       \/ /\ s3' = [s3 EXCEPT ![FileKey(loc[r])] = loc[r].data]
          /\ loc' = [loc EXCEPT ![r] = [Wrote(@, "s3") EXCEPT !.pc = "update"]]
          /\ UNCHANGED tmpfs
    /\ UNCHANGED <<thumbVariant, videoVariant, db, assets, started, aspectVars>>

\* VideoUpdate writing only the video URL into the stored record, instead of
\* the whole record it read
VideoUpdate_Merge(r) ==
    /\ loc[r].kind = "video" /\ loc[r].pc = "update"
    /\ LET video == [loc[r].video EXCEPT !.VideoURL = S3URL(FileKey(loc[r]))] IN
        \/ /\ loc' = [loc EXCEPT ![r] =
                        VFail([@ EXCEPT !.video = video], StatusInternalServerError)]
           /\ UNCHANGED db
        \/ /\ db' = [db EXCEPT ![video.ID].VideoURL = video.VideoURL]
           /\ loc' = Interfere([loc EXCEPT ![r] =
                                  VFail(Wrote([@ EXCEPT !.video = video], "db"),
                                        StatusAccepted)],
                               r, None)
    /\ tmpfs' = DeferredRemove(tmpfs)
    /\ UNCHANGED <<thumbVariant, videoVariant, assets, s3, started, aspectVars>>

\* video.VideoURL = &s3URL; cfg.db.UpdateVideo(video);
\* w.WriteHeader(http.StatusAccepted)
VideoUpdate(r) ==
    /\ loc[r].kind = "video" /\ loc[r].pc = "update"
    /\ LET video == [loc[r].video EXCEPT !.VideoURL = S3URL(FileKey(loc[r]))] IN
        \/ /\ loc' = [loc EXCEPT ![r] =
                        VFail([@ EXCEPT !.video = video], StatusInternalServerError)]
           /\ UNCHANGED db
        \/ /\ db' = UpdateVideo(db, video)
           /\ loc' = Interfere([loc EXCEPT ![r] =
                                  VFail(Wrote([@ EXCEPT !.video = video], "db"),
                                        StatusAccepted)],
                               r, None)
    /\ tmpfs' = DeferredRemove(tmpfs)
    /\ UNCHANGED <<thumbVariant, videoVariant, assets, s3, started, aspectVars>>

(* --------------------------- specification ---------------------------- *)
Next ==
    \E r \in Reqs :
       \/ Start(r)
       \/ ThumbParseID(r) \/ ThumbGetBearerToken(r) \/ ThumbValidateJWT(r)
       \/ ThumbFormFile(r) \/ ThumbContentTypeA(r) \/ ThumbContentTypeB(r)
       \/ ThumbGetVideo(r) \/ ThumbCheckOwner(r)
       \/ ThumbNameA(r) \/ ThumbNameB(r)
       \/ ThumbCreate(r) \/ ThumbCopy(r) \/ ThumbUpdate(r)
       \/ VideoParseID(r) \/ VideoGetBearerToken(r) \/ VideoValidateJWT(r)
       \/ VideoGetVideo(r) \/ VideoCheckOwner(r)
       \/ VideoFormFile(r) \/ VideoContentType(r) \/ VideoCreateTemp(r)
       \/ VideoCopy(r) \/ VideoProbe(r) \/ VideoRand(r)
       \/ VideoUpload(r) \/ VideoUpdate(r)

Spec == Init /\ [][Next]_vars

(* ------------- specification of the aspect classification ------------- *)
\* widths and heights the classification is applied to: a grid, the sizes
\* the specification names, and sizes whose ratio is 0.1 away from a target
SampleDims ==
    {<<1920, 1080>>, <<1080, 1920>>, <<1000, 1000>>, <<169, 90>>, <<151, 90>>,
     <<53, 80>>, <<37, 80>>, <<1690, 900>>, <<1510, 900>>, <<1280, 720>>,
     <<640, 360>>, <<720, 1280>>}
DimInputs == ((0 .. MaxDim) \X (0 .. MaxDim)) \cup SampleDims

InitAspect ==
    /\ thumbVariant = "A" /\ videoVariant = "aspect"
    /\ db = [v \in Videos |->
               [ID |-> v, UserID |-> IF v = "v1" THEN "u1" ELSE "u2",
                ThumbnailURL |-> NoURL, VideoURL |-> NoURL]]
    /\ assets = [p \in AssetNames |-> Absent]
    /\ tmpfs = [p \in TmpPaths \cup {RemovePath} |-> Absent]
    /\ s3 = [k \in S3Keys |-> Absent]
    /\ loc = [r \in Reqs |-> IdleLocals]
    /\ started = 0
    /\ dims \in DimInputs /\ label = None /\ prefix = None

\* getVideoAspectRatio on a file whose first stream has the size dims
Classify ==
    /\ label = None
    /\ label' = getVideoAspectRatio(Probe(0, TRUE, <<Stream(dims[1], dims[2])>>)).ratio
    /\ UNCHANGED <<handlerVars, dims, prefix>>

\* the handler's switch on the label
ChoosePrefix ==
    /\ label # None /\ prefix = None
    /\ prefix' = PrefixOf(label)
    /\ UNCHANGED <<handlerVars, dims, label>>

NextAspect == Classify \/ ChoosePrefix

SpecAspect == InitAspect /\ [][NextAspect]_vars

(* ------------------------------ claims -------------------------------- *)
Abs(x) == IF x < 0 THEN 0 - x ELSE x

\* the static route /assets/ serves the files of the assets directory: the
\* file a thumbnail URL names
Resolve(url) == url[3]

Allowed == {"image/jpeg", "image/png"}

\* C1: a request whose verified caller is not the owner of the target record
\* is answered 401 Unauthorized and writes nothing (no asset file, no temp
\* file, no object, no record update).
C1_MismatchUnauthorizedNoWrite ==
    \A r \in Reqs :
      LET l == loc[r] IN
        (/\ l.pc = "done" /\ l.userID # None /\ l.videoID # None
         /\ ~l.lookupFailed
         /\ db[l.videoID].UserID # l.userID)
        => (l.status = StatusUnauthorized /\ l.wrote = {})

\* C2: in both handlers the identity-and-ownership gate has completed before
\* any byte of the request body is read.
C2_GateBeforeBody ==
    \A r \in Reqs : loc[r].bodyRead => loc[r].gate

\* C3: the temp file a video upload created is closed and removed by the
\* time the handler returns, on every path.
C3_TempFileRemoved ==
    \A r \in Reqs :
      LET l == loc[r] IN
        (l.kind = "video" /\ l.pc = "done" /\ l.tempFile # None)
        => (tmpfs[l.tempFile] = Absent /\ ~l.tempOpen)

\* C4: when probing fails, the video handler answers 500, uploads nothing to
\* the object store and does not update the record.
C4_ProbeFailureInternal ==
    \A r \in Reqs :
      LET l == loc[r] IN
        l.probeFailed
        => (/\ l.pc = "done" /\ l.status = StatusInternalServerError /\ l.nResp = 1
            /\ "s3" \notin l.wrote /\ "db" \notin l.wrote)

C4_Witness ==
    \E r \in Reqs : loc[r].probeFailed /\ loc[r].pc = "done" /\ loc[r].tempFile # None

\* C5: a video upload whose body is longer than the 1 GiB cap is rejected
\* with an error before a temp file is created, an object uploaded or the
\* record updated.
C5_OversizedRejectedFirst ==
    \A r \in Reqs :
      LET l == loc[r] IN
        (l.kind = "video" /\ l.size > maxMemory)
        => (/\ l.pc = "done" /\ l.status = StatusBadRequest /\ l.nResp = 1
            /\ l.tempFile = None /\ l.wrote = {})

C5_Witness ==
    \E r \in Reqs : loc[r].kind = "video" /\ loc[r].size > maxMemory /\ loc[r].gate

\* the classification rule on exact ratios: |w/h - 16/9| < 1/10, then
\* |w/h - 9/16| < 1/10, both strict
ExactAspect(w, h) ==
    IF h > 0 /\ 10 * Abs(9 * w - 16 * h) < 9 * h THEN "16:9"
    ELSE IF h > 0 /\ 10 * Abs(16 * w - 9 * h) < 16 * h THEN "9:16"
    ELSE "other"

\* the rule with the three ratios at which float64 rounding decides: exactly
\* 0.1 below 16/9 is "16:9", exactly 0.1 below or above 9/16 is "9:16"
\* (exactly 0.1 above 16/9 is "other")
RoundedAspect(w, h) ==
    IF h > 0 /\ (10 * Abs(9 * w - 16 * h) < 9 * h \/ 10 * (16 * h - 9 * w) = 9 * h)
      THEN "16:9"
    ELSE IF h > 0 /\ 10 * Abs(16 * w - 9 * h) <= 16 * h THEN "9:16"
    ELSE "other"

PrefixFor(w, h, rule(_, _)) ==
    CASE rule(w, h) = "16:9" -> "landscape"
      [] rule(w, h) = "9:16" -> "portrait"
      [] OTHER -> "other"

\* C6 as stated: the label is the exact rule's, so that a ratio exactly 0.1
\* away from 16/9 is "other"; the prefix is landscape, portrait or other.
C6_ExactRule ==
    /\ label # None => label = ExactAspect(dims[1], dims[2])
    /\ prefix # None => prefix = PrefixFor(dims[1], dims[2], ExactAspect)

\* C6 amended: the label is the exact rule's except at the ratios exactly 0.1
\* away from a target, where float64 rounding gives "16:9" below 16/9, "other"
\* above it and "9:16" on both sides of 9/16; (1920,1080) is "16:9",
\* (1080,1920) is "9:16", (1000,1000) is "other"; the prefix follows the label.
C6_RoundedRule ==
    /\ label # None =>
         /\ label = RoundedAspect(dims[1], dims[2])
         /\ dims = <<1920, 1080>> => label = "16:9"
         /\ dims = <<1080, 1920>> => label = "9:16"
         /\ dims = <<1000, 1000>> => label = "other"
         /\ dims = <<169, 90>> => label = "other"
         /\ (label # ExactAspect(dims[1], dims[2])) =>
              \/ 10 * (16 * dims[2] - 9 * dims[1]) = 9 * dims[2]
              \/ 10 * Abs(16 * dims[1] - 9 * dims[2]) = 16 * dims[2]
    /\ prefix # None => prefix = PrefixFor(dims[1], dims[2], RoundedAspect)

C6_Witness == dims = <<151, 90>> /\ label = "16:9" /\ prefix = "landscape"

\* C7: "image/jpeg" gives ".jpg" and "image/png" gives ".png"; for any other
\* content type variant A answers 400 without writing a file or the record,
\* and variant B goes on with the empty extension.
C7_ExtensionMapping ==
    \A r \in Reqs :
      LET l == loc[r] IN
        l.kind = "thumbnail" =>
          /\ l.fileExtension # None =>
               /\ l.contentType = "image/jpeg" => l.fileExtension = ".jpg"
               /\ l.contentType = "image/png" => l.fileExtension = ".png"
               /\ l.contentType \notin Allowed =>
                    (thumbVariant = "B" /\ l.fileExtension = "")
          /\ (thumbVariant = "A" /\ l.contentType \notin Allowed \cup {None}) =>
               (/\ l.pc = "done" /\ l.status = StatusBadRequest /\ l.nResp = 1
                /\ l.wrote = {})

C7_WitnessA ==
    /\ thumbVariant = "A"
    /\ \E r \in Reqs :
         /\ loc[r].kind = "thumbnail" /\ loc[r].contentType = "video/mp4"
         /\ loc[r].pc = "done"
    /\ \E r \in Reqs :
         /\ loc[r].kind = "thumbnail" /\ loc[r].contentType = "image/png"
         /\ loc[r].fileExtension = ".png" /\ "asset" \in loc[r].wrote

C7_WitnessB ==
    /\ thumbVariant = "B"
    /\ \E r \in Reqs :
         /\ loc[r].kind = "thumbnail" /\ loc[r].contentType \notin Allowed \cup {None}
         /\ loc[r].fileExtension = "" /\ "db" \in loc[r].wrote
    /\ \E r \in Reqs :
         /\ loc[r].kind = "thumbnail" /\ loc[r].contentType = "image/jpeg"
         /\ loc[r].fileExtension = ".jpg" /\ "asset" \in loc[r].wrote

C7_Witness == C7_WitnessA \/ C7_WitnessB

\* the record's thumbnail URL names an asset file that holds the bytes of l
RoundTrip(l) ==
    LET url == db[l.videoID].ThumbnailURL IN
      url # NoURL /\ assets[Resolve(url)] = l.data

\* C8 as stated: after a thumbnail upload answered 200, with no other upload
\* to the same record in between, the record's thumbnail URL names an asset
\* file holding exactly the uploaded bytes.
C8_RoundTripSameRecord ==
    \A r \in Reqs :
      LET l == loc[r] IN
        (l.kind = "thumbnail" /\ l.pc = "done" /\ l.status = StatusOK /\ ~l.disturbed)
        => RoundTrip(l)

\* C8 amended: ... with no other upload to the same record, and no other
\* upload writing a file of the same name, in between.
C8_RoundTrip ==
    \A r \in Reqs :
      LET l == loc[r] IN
        (/\ l.kind = "thumbnail" /\ l.pc = "done" /\ l.status = StatusOK
         /\ ~l.disturbed /\ ~l.clash)
        => RoundTrip(l)

C8_Witness ==
    \E r, q \in Reqs :
      /\ r # q
      /\ loc[r].kind = "thumbnail" /\ loc[r].pc = "done" /\ loc[r].status = StatusOK
      /\ ~loc[r].disturbed /\ ~loc[r].clash /\ RoundTrip(loc[r])
      /\ loc[q].kind = "thumbnail" /\ loc[q].pc = "done" /\ loc[q].status = StatusOK
      /\ loc[q].data # loc[r].data

\* C9: every failure is terminal: one response per request, and after an
\* error response no further step, file write, upload or record update.
C9_FailureTerminal ==
    \A r \in Reqs :
      LET l == loc[r] IN
        /\ l.nResp <= 1
        /\ ~l.lateWrite
        /\ l.nResp = 1 => l.pc = "done"

\* C10: the stored record is exactly the whole record written by the update
\* that ran last, stale fields included.
C10_LastWriteWins ==
    \A r \in Reqs :
      LET l == loc[r] IN
        ("db" \in l.wrote /\ ~l.superseded) => db[l.videoID] = l.video

\* a thumbnail URL set by a completed upload has been replaced by the value a
\* video upload had read before
C10_Witness ==
    \E r, q \in Reqs :
      /\ loc[q].kind = "thumbnail" /\ loc[q].status = StatusOK /\ loc[q].superseded
      /\ loc[r].kind = "video" /\ loc[r].status = StatusAccepted /\ ~loc[r].superseded
      /\ loc[r].videoID = loc[q].videoID
      /\ db[loc[r].videoID].ThumbnailURL # loc[q].video.ThumbnailURL
      /\ db[loc[r].videoID].VideoURL = loc[r].video.VideoURL

====
